---- MODULE Spec2Model ----
(***************************************************************************)
(* Model of Manipulator (src/Manipulator.cpp): the link registry links_    *)
(* (a std::map<int, MovableLink*>), its operations, and the forward        *)
(* kinematics of calculatePosition with checkCollision.                    *)
(*                                                                         *)
(* Numbers.  Lengths and coordinates are fixed-point, in hundredths        *)
(* (r = 100 is the length 1.0, MinDist = 10 is the 0.1 of line 174).       *)
(* Angles are in units of pi/2 (HalfPi = 1 is M_PI/2), and only whole      *)
(* multiples of pi/2 are drawn, where sin and cos are -1, 0 or 1 once      *)
(* rounded to the fixed-point grid; sqrt(s) < 0.1 is decided as            *)
(* s < 0.1^2, which is the same comparison on the grid.                    *)
(***************************************************************************)
EXTENDS Integers, Sequences, FiniteSets, TLC

\* Largest link id drawn as an input.
MaxId == 2

\* M_PI/2 in units of pi/2 (the bound of the check on link 1).
HalfPi == 1

\* The minimal distance 0.1 between two links, in hundredths.
MinDist == 10

\* Link ids (positive) and the ids a caller may pass or a prevId may hold.
Ids == 1..MaxId
Keys == 0..MaxId

\* Elements the chain vector can hold before its allocation fails.
MaxChain == MaxId + 1

VARIABLES
    links_,      \* the registry: key -> link record, or NULL
    pc,          \* "idle", "walk", "fk", "done", "aborted", "crashed"
    op,          \* the operation being executed / last executed, with its arguments
    chain,       \* calculatePosition: std::vector<int> chain
    current_id,  \* calculatePosition: int current_id
    i,           \* calculatePosition: loop index i (0-based, as in the code)
    x, y, z,     \* calculatePosition: accumulators
    ret,         \* value returned by the operation
    diag         \* message written to std::cerr by the operation

vars == <<links_, pc, op, chain, current_id, i, x, y, z, ret, diag>>

frame == <<chain, current_id, i, x, y, z>>

----------------------------------------------------------------------------
\* Values

\* A null MovableLink* (what std::map::operator[] value-initialises).
NULL == [kind |-> "nullptr"]

NoOp == [name |-> "none"]
Void == [kind |-> "void"]

\* std::make_tuple(x, y, z)
Tuple(a, b, c) == [kind |-> "tuple", x |-> a, y |-> b, z |-> c]

\* A link object: MovableLink, or its subclasses Gripper and Camera.
Link(id, r, prevId, pitch, yaw, roll, kind) ==
    [id |-> id, r |-> r, prevId |-> prevId, pitch |-> pitch, yaw |-> yaw,
     roll |-> roll, kind |-> kind, aperture |-> 0]

\* Accessors of MovableLink.
getId(link) == link.id
getR(link) == link.r
getPrevId(link) == link.prevId
getDirection(link) == <<link.pitch, link.yaw>>

\* MovableLink::setDirection
LinkSetDirection(link, new_pitch, new_yaw, new_roll) ==
    [link EXCEPT !.pitch = new_pitch, !.yaw = new_yaw, !.roll = new_roll]

\* Gripper::open, Gripper::close
GripperOpen(link, angle) == [link EXCEPT !.aperture = angle]
GripperClose(link) == [link EXCEPT !.aperture = 0]

\* dynamic_cast<Gripper*>(p), dynamic_cast<Camera*>(p): null unless p points
\* to an object of that class.
IsGripper(p) == p.kind = "Gripper"
IsCamera(p) == p.kind = "Camera"

\* links_.count(id)
count(id) == id \in DOMAIN links_

\* links_[id] (std::map::operator[]): the map after the access, which has
\* inserted a null pointer under a key that was missing.
Subscript(id) == IF count(id) THEN links_ ELSE links_ @@ (id :> NULL)

\* sin and cos at whole multiples of pi/2.
sin(a) == CASE a % 4 = 0 -> 0 [] a % 4 = 1 -> 1 [] a % 4 = 2 -> 0 [] OTHER -> -1
cos(a) == CASE a % 4 = 0 -> 1 [] a % 4 = 1 -> 0 [] a % 4 = 2 -> -1 [] OTHER -> 0

----------------------------------------------------------------------------
\* Registry operations.  Each runs from "idle" to "done" in one step.

Finish(name, id, r, d) ==
    /\ pc' = "done"
    /\ op' = [name |-> name, id |-> id]
    /\ ret' = r
    /\ diag' = d
    /\ UNCHANGED frame

\* addLink that stores the link also under an id that is taken.
addLink_Overwrite(link) ==
    /\ pc = "idle"
    /\ links_' = (getId(link) :> link) @@ links_
    /\ Finish("addLink", getId(link), Void,
              IF count(getId(link)) THEN "already exists" ELSE "")

addLink(link) ==
    /\ pc = "idle"
    /\ IF count(getId(link))
         THEN /\ links_' = links_
              /\ Finish("addLink", getId(link), Void, "already exists")
         ELSE /\ links_' = links_ @@ (getId(link) :> link)
              /\ Finish("addLink", getId(link), Void, "")

getLink(id) ==
    /\ pc = "idle"
    /\ links_' = links_
    /\ Finish("getLink", id, IF count(id) THEN links_[id] ELSE NULL, "")

\* assert(links_.count(id)) fails: abort().  The build is not fixed: where
\* NDEBUG is defined the assert is compiled out, so the callers also go on
\* past a failed assert.
AssertFails(name, id) ==
    /\ pc' = "aborted"
    /\ op' = [name |-> name, id |-> id]
    /\ ret' = Void
    /\ diag' = "assertion failed"
    /\ UNCHANGED <<links_, frame>>

\* A member call through a null pointer ends the process here; the other
\* outcomes of the undefined behaviour are separate disjuncts of the callers.
Crash(name, id, map) ==
    /\ pc' = "crashed"
    /\ op' = [name |-> name, id |-> id]
    /\ ret' = Void
    /\ diag' = ""
    /\ links_' = map
    /\ UNCHANGED frame

\* setDirection that refuses a pitch or a yaw above pi/2.
setDirection_Validating(id, new_pitch, new_yaw, new_roll) ==
    /\ pc = "idle"
    /\ count(id)
    /\ links_[id] # NULL
    /\ links_' = IF new_pitch > HalfPi \/ new_yaw > HalfPi
                   THEN links_
                   ELSE [links_ EXCEPT ![id] =
                            LinkSetDirection(@, new_pitch, new_yaw, new_roll)]
    /\ pc' = "done"
    /\ op' = [name |-> "setDirection", id |-> id,
              pitch |-> new_pitch, yaw |-> new_yaw, roll |-> new_roll]
    /\ ret' = Void
    /\ diag' = ""
    /\ UNCHANGED frame

setDirection(id, new_pitch, new_yaw, new_roll) ==
    /\ pc = "idle"
    /\ \/ /\ ~count(id)
          /\ AssertFails("setDirection", id)
       \/ LET map == Subscript(id) IN
          IF map[id] = NULL
            THEN \* null->setDirection(...): undefined behaviour
                 \/ Crash("setDirection", id, map)
                 \/ /\ links_' = map
                    /\ Finish("setDirection", id, Void, "")
            ELSE /\ links_' = [map EXCEPT ![id] =
                        LinkSetDirection(@, new_pitch, new_yaw, new_roll)]
                 /\ pc' = "done"
                 /\ op' = [name |-> "setDirection", id |-> id,
                           pitch |-> new_pitch, yaw |-> new_yaw, roll |-> new_roll]
                 /\ ret' = Void
                 /\ diag' = ""
                 /\ UNCHANGED frame

openGripper(id, angle) ==
    /\ pc = "idle"
    /\ LET map == Subscript(id) IN
       IF IsGripper(map[id])
         THEN /\ links_' = [map EXCEPT ![id] = GripperOpen(@, angle)]
              /\ Finish("openGripper", id, Void, "")
         ELSE /\ links_' = map
              /\ Finish("openGripper", id, Void, "is not a gripper")

closeGripper(id) ==
    /\ pc = "idle"
    /\ LET map == Subscript(id) IN
       IF IsGripper(map[id])
         THEN /\ links_' = [map EXCEPT ![id] = GripperClose(@)]
              /\ Finish("closeGripper", id, Void, "")
         ELSE /\ links_' = map
              /\ Finish("closeGripper", id, Void, "is not a gripper")

\* Camera::take_a_photo() only reports; it changes no state of the link.
takePhoto(id) ==
    /\ pc = "idle"
    /\ LET map == Subscript(id) IN
       /\ links_' = map
       /\ Finish("takePhoto", id, Void,
                 IF IsCamera(map[id]) THEN "" ELSE "is not a camera")

\* The caller takes the result; the next operation may start.
Return ==
    /\ pc = "done"
    /\ pc' = "idle"
    /\ op' = NoOp
    /\ ret' = Void
    /\ diag' = ""
    /\ chain' = <<>>
    /\ current_id' = 0
    /\ i' = 0
    /\ x' = 0 /\ y' = 0 /\ z' = 0
    /\ UNCHANGED links_

----------------------------------------------------------------------------
\* calculatePosition and checkCollision

\* std::reverse
RECURSIVE Reverse(_)
Reverse(s) == IF s = <<>> THEN <<>> ELSE Append(Reverse(Tail(s)), Head(s))

\* The relative coordinates with cos and sin of the yaw exchanged.
Displacement_YawSwapped(link) ==
    <<link.r * sin(link.yaw) * sin(link.pitch), link.r * cos(link.yaw) * sin(link.pitch),
      link.r * cos(link.pitch)>>

\* The relative coordinates (dx, dy, dz) of a link.
Displacement(link) ==
    LET r == getR(link)
        pitch == getDirection(link)[1]
        yaw == getDirection(link)[2]
    IN  <<r * cos(yaw) * sin(pitch), r * sin(yaw) * sin(pitch), r * cos(pitch)>>

\* checkCollision, inner loop: (prev_x, prev_y, prev_z) after j = 0..last.
RECURSIVE PrevPosition(_, _)
PrevPosition(c, last) ==
    IF last < 0 THEN <<0, 0, 0>>
    ELSE LET p == PrevPosition(c, last - 1)
             d == Displacement(links_[c[last + 1]])
         IN  <<p[1] + d[1], p[2] + d[2], p[3] + d[3]>>

\* distance < 0.1, decided on the squares.
TooClose(a, b) ==
    (a[1] - b[1]) * (a[1] - b[1]) + (a[2] - b[2]) * (a[2] - b[2])
        + (a[3] - b[3]) * (a[3] - b[3]) < MinDist * MinDist

\* checkCollision whose outer loop starts at 1 and so never looks at the
\* first link of the chain.
checkCollision_FromOne(c, current_index, cx, cy, cz) ==
    \A k \in 1..(current_index - 1) :
        (cx - PrevPosition(c, k)[1]) * (cx - PrevPosition(c, k)[1])
            + (cy - PrevPosition(c, k)[2]) * (cy - PrevPosition(c, k)[2])
            + (cz - PrevPosition(c, k)[3]) * (cz - PrevPosition(c, k)[3]) >= MinDist * MinDist

\* bool checkCollision(chain, current_index, x, y, z): TRUE when no earlier
\* link of the chain is closer than 0.1 to (x, y, z).
checkCollision(c, current_index, cx, cy, cz) ==
    \A k \in 0..(current_index - 1) : ~TooClose(<<cx, cy, cz>>, PrevPosition(c, k))

\* The condition of the while loop of line 81.
WalkCondition == current_id # 0 /\ count(current_id)

\* Entry: the assert of line 76, then the initialisation of the walk.
calculatePosition(id) ==
    /\ pc = "idle"
    /\ \/ /\ ~count(id)
          /\ AssertFails("calculatePosition", id)
       \/ /\ pc' = "walk"
          /\ op' = [name |-> "calculatePosition", id |-> id]
          /\ chain' = <<>>
          /\ current_id' = id
          /\ UNCHANGED <<links_, i, x, y, z, ret, diag>>

\* One iteration of the while loop: push_back, then follow prevId.
WalkStep ==
    /\ pc = "walk"
    /\ WalkCondition
    /\ Len(chain) < MaxChain
    /\ chain' = Append(chain, current_id)
    /\ IF links_[current_id] = NULL
         THEN \* null->getPrevId(): undefined behaviour
              \/ /\ pc' = "crashed"
                 /\ UNCHANGED current_id
              \/ /\ pc' = pc
                 /\ current_id' \in Keys
         ELSE /\ pc' = pc
              /\ current_id' = getPrevId(links_[current_id])
    /\ UNCHANGED <<links_, op, i, x, y, z, ret, diag>>

\* The vector cannot grow any further: push_back throws std::bad_alloc,
\* which nothing catches.
WalkBadAlloc ==
    /\ pc = "walk"
    /\ WalkCondition
    /\ Len(chain) >= MaxChain
    /\ pc' = "aborted"
    /\ diag' = "bad_alloc"
    /\ UNCHANGED <<links_, op, frame, ret>>

\* Lines 87-90: the walk ended somewhere else than at the base.
WalkIncomplete ==
    /\ pc = "walk"
    /\ ~WalkCondition
    /\ current_id # 0
    /\ pc' = "done"
    /\ diag' = "Incomplete chain"
    /\ ret' = Tuple(0, 0, 0)
    /\ UNCHANGED <<links_, op, frame>>

\* Lines 93-96: reverse the chain, start the accumulation at the base.
WalkReverse ==
    /\ pc = "walk"
    /\ ~WalkCondition
    /\ current_id = 0
    /\ pc' = "fk"
    /\ chain' = Reverse(chain)
    /\ i' = 0
    /\ x' = 0 /\ y' = 0 /\ z' = 0
    /\ UNCHANGED <<links_, op, current_id, ret, diag>>

\* The link the for loop of line 99 is at.
CurrentLink == links_[chain[i + 1]]

\* The restriction on the first link, on its pitch only.
DomainViolated_PitchOnly(id, link) == id = 1 /\ link.pitch > HalfPi

\* The restriction on the first link, failing only when both angles are
\* above pi/2.
DomainViolated_Both(id, link) == id = 1 /\ link.pitch > HalfPi /\ link.yaw > HalfPi

\* Lines 107-108: the restriction on the first link.
DomainViolated(id, link) ==
    /\ id = 1
    /\ \/ getDirection(link)[1] > HalfPi
       \/ getDirection(link)[2] > HalfPi

\* One iteration of the for loop of lines 99-133.
FkStep ==
    /\ pc = "fk"
    /\ i < Len(chain)
    /\ CurrentLink # NULL
    /\ LET d == Displacement(CurrentLink)
           nx == x + d[1]
           ny == y + d[2]
           nz == z + d[3]
       IN  IF DomainViolated(chain[i + 1], CurrentLink)
             THEN /\ pc' = "done"
                  /\ diag' = "Pitch and yaw can't be greater than pi/2"
                  /\ ret' = Tuple(0, 0, 0)
                  /\ UNCHANGED <<i, x, y, z>>
             ELSE IF i > 0 /\ ~checkCollision(chain, i, nx, ny, nz)
             THEN /\ pc' = "done"
                  /\ diag' = "Collision detected"
                  /\ ret' = Tuple(0, 0, 0)
                  /\ i' = i
                  /\ x' = nx /\ y' = ny /\ z' = nz
             ELSE /\ pc' = "fk"
                  /\ i' = i + 1
                  /\ x' = nx /\ y' = ny /\ z' = nz
                  /\ UNCHANGED <<ret, diag>>
    /\ UNCHANGED <<links_, op, chain, current_id>>

\* The for loop reads a link through a null pointer (getR, getDirection):
\* undefined behaviour, which crashes or computes with whatever is read.
FkNull ==
    /\ pc = "fk"
    /\ i < Len(chain)
    /\ CurrentLink = NULL
    /\ \/ /\ pc' = "crashed"
          /\ UNCHANGED <<ret, diag>>
       \/ /\ pc' = "done"
          /\ ret' = [kind |-> "indeterminate"]
          /\ diag' \in {"", "Collision detected"}
    /\ UNCHANGED <<links_, op, frame>>

\* Line 135.
FkReturn ==
    /\ pc = "fk"
    /\ i >= Len(chain)
    /\ pc' = "done"
    /\ ret' = Tuple(x, y, z)
    /\ UNCHANGED <<links_, op, frame, diag>>

CalcSteps ==
    \/ WalkStep
    \/ WalkBadAlloc
    \/ WalkIncomplete
    \/ WalkReverse
    \/ FkStep
    \/ FkNull
    \/ FkReturn

----------------------------------------------------------------------------
\* Inputs and specifications

Init ==
    /\ links_ = <<>>
    /\ pc = "idle"
    /\ op = NoOp
    /\ chain = <<>>
    /\ current_id = 0
    /\ i = 0
    /\ x = 0 /\ y = 0 /\ z = 0
    /\ ret = Void
    /\ diag = ""

\* The links a caller may offer to addLink.  addLink looks at nothing but
\* the id of a link whose id is taken, so one link per taken id stands for
\* all the links of S under it.
Offered(S) ==
    {link \in S : ~count(getId(link))}
        \cup {Link(id, 100, 0, 0, 0, 0, "MovableLink") : id \in Ids \cap DOMAIN links_}

\* The whole interface: links of every class, of length 1.0,
\* pointing up; setDirection turns them to (pi, -pi/2, pi/2) and back.
Classes == {"MovableLink", "Gripper", "Camera"}

RegLinks ==
    {Link(id, 100, prevId, 0, 0, 0, kind) : id \in Ids, prevId \in Keys, kind \in Classes}

RegOrientations == {<<0, 0, 0>>, <<2, -1, 1>>}

Next ==
    \/ \E link \in Offered(RegLinks) : addLink(link)
    \/ \E id \in Keys : getLink(id)
    \/ \E id \in Ids : openGripper(id, 1)
    \/ \E id \in Ids : closeGripper(id)
    \/ \E id \in Ids : takePhoto(id)
    \/ \E id \in Ids, d \in RegOrientations : setDirection(id, d[1], d[2], d[3])
    \/ \E id \in Keys : calculatePosition(id)
    \/ CalcSteps
    \/ Return

Spec == Init /\ [][Next]_vars

\* The kinematics, on arms built as documented: plain links of length 0 or
\* 1.0 in the directions (pitch, yaw) up, +x, +y, down (pitch pi), -x (yaw
\* pi) and -x by pitch -pi/2, each attached to the base or to a link that is
\* registered, and setDirection called on registered links only.  Such a
\* registry has no cycle and no null entry, so WalkBadAlloc and FkNull
\* cannot happen and are left out.
Lengths == {0, 100}

Directions == {<<0, 0>>, <<1, 0>>, <<1, 1>>, <<2, 0>>, <<1, 2>>, <<-1, 0>>}

KinLinks ==
    {Link(id, r, prevId, d[1], d[2], 0, "MovableLink") :
        id \in Ids, r \in Lengths, prevId \in Keys, d \in Directions}

Attached(link) == getPrevId(link) = 0 \/ count(getPrevId(link))

NextKin ==
    \/ \E link \in Offered(KinLinks) : Attached(link) /\ addLink(link)
    \/ \E id \in DOMAIN links_, d \in Directions : setDirection(id, d[1], d[2], 0)
    \/ \E id \in Keys : calculatePosition(id)
    \/ WalkStep
    \/ WalkIncomplete
    \/ WalkReverse
    \/ FkStep
    \/ FkReturn
    \/ Return

SpecKin == Init /\ [][NextKin]_vars

----------------------------------------------------------------------------
\* What the claims speak of, stated on the registry alone

\* id is the key of a link that addLink registered.
Registered(id) == id \in DOMAIN links_ /\ links_[id] # NULL

\* The prevId references from id reach the base through registered links
\* in at most n steps.
RECURSIVE ReachesBase(_, _)
ReachesBase(id, n) ==
    \/ id = 0
    \/ /\ n > 0
       /\ Registered(id)
       /\ ReachesBase(links_[id].prevId, n - 1)

\* The prevId references from id reach, through registered links, an id
\* other than the base that no addLink registered.
RECURSIVE ReachesUnregistered(_, _)
ReachesUnregistered(id, n) ==
    /\ id # 0
    /\ \/ ~Registered(id)
       \/ n > 0 /\ ReachesUnregistered(links_[id].prevId, n - 1)

\* The chain of id, from the link attached to the base to id.
RECURSIVE ChainOf(_, _)
ChainOf(id, n) ==
    IF id = 0 \/ n = 0 THEN <<>> ELSE Append(ChainOf(links_[id].prevId, n - 1), id)

Resolved(id) == Registered(id) /\ ReachesBase(id, MaxId)
Path(id) == ChainOf(id, MaxId)

\* (r cos(yaw) sin(pitch), r sin(yaw) sin(pitch), r cos(pitch))
Offset(l) ==
    <<l.r * cos(l.yaw) * sin(l.pitch), l.r * sin(l.yaw) * sin(l.pitch), l.r * cos(l.pitch)>>

\* The sum of the offsets of the first k links of a chain.
RECURSIVE PositionAt(_, _)
PositionAt(c, k) ==
    IF k = 0 THEN <<0, 0, 0>>
    ELSE LET p == PositionAt(c, k - 1)
             d == Offset(links_[c[k]])
         IN  <<p[1] + d[1], p[2] + d[2], p[3] + d[3]>>

\* Two positions at a distance below 0.1.
Near(a, b) ==
    (a[1] - b[1]) * (a[1] - b[1]) + (a[2] - b[2]) * (a[2] - b[2])
        + (a[3] - b[3]) * (a[3] - b[3]) < MinDist * MinDist

\* The links k of a chain that are nearer than 0.1 to an earlier one.
Colliding(c) ==
    {k \in 1..Len(c) : \E j \in 1..(k - 1) : Near(PositionAt(c, k), PositionAt(c, j))}

\* The places of a chain where link 1 stands with pitch or yaw above pi/2.
AboveHalfPi(c) ==
    {k \in 1..Len(c) : c[k] = 1 /\ (links_[1].pitch > HalfPi \/ links_[1].yaw > HalfPi)}

OnChain(c, id) == \E k \in 1..Len(c) : c[k] = id

Min(S) == CHOOSE m \in S : \A n \in S : m <= n

CalculatingAny == op.name = "calculatePosition"
Ended == pc \in {"aborted", "crashed"}
Returned == pc = "done"
Failure(message) == ret = Tuple(0, 0, 0) /\ diag = message
Computed == Returned /\ ret.kind = "tuple" /\ diag = ""

IncompleteChain == "Incomplete chain"
DomainViolation == "Pitch and yaw can't be greater than pi/2"
Collision == "Collision detected"

----------------------------------------------------------------------------
\* Claims

\* C1: the chain walk of calculatePosition makes at most as many steps as
\* there are registered links, whatever the prevId references are (a cycle
\* included), so that the call ends instead of looping.
C1_WalkBoundedByRegistry ==
    (pc = "walk" /\ \A k \in DOMAIN links_ : links_[k] # NULL)
        => Len(chain) <= Cardinality(DOMAIN links_)

\* C2: calculatePosition(0) never aborts and returns (0,0,0) without a
\* failure, whatever the registry holds.
C2_BaseIsOrigin ==
    (CalculatingAny /\ op.id = 0)
        => /\ ~Ended
           /\ Returned => (ret = Tuple(0, 0, 0) /\ diag = "")

\* C3: when the chain of the target resolves to the base and starts with
\* link 1, and link 1 has pitch > pi/2 or yaw > pi/2, calculatePosition ends
\* with the DomainViolation failure (0,0,0), whatever the other links are.
C3_Link1AboveHalfPiFails ==
    (CalculatingAny /\ Resolved(op.id) /\ Path(op.id)[1] = 1 /\ AboveHalfPi(Path(op.id)) # {})
        => /\ ~Ended
           /\ Returned => Failure(DomainViolation)

C3_Witness ==
    /\ CalculatingAny /\ Returned /\ Resolved(op.id)
    /\ Path(op.id) = <<1, 2>>
    /\ links_[1].pitch <= HalfPi /\ links_[1].yaw > HalfPi
    /\ links_[2].r = 0
    /\ Failure(DomainViolation)

\* C4 as claimed: a position computed through link 1 implies that the pitch
\* and the yaw of link 1 are in [0, pi/2].
C4_Link1WithinZeroAndHalfPi ==
    (CalculatingAny /\ Computed /\ Resolved(op.id) /\ OnChain(Path(op.id), 1))
        => /\ links_[1].pitch \in 0..HalfPi
           /\ links_[1].yaw \in 0..HalfPi

\* C4 as amended: a position computed through link 1 implies that the pitch
\* and the yaw of link 1 are at most pi/2 (nothing bounds them from below).
C4_Link1AtMostHalfPi ==
    (CalculatingAny /\ Computed /\ Resolved(op.id) /\ OnChain(Path(op.id), 1))
        => /\ links_[1].pitch <= HalfPi
           /\ links_[1].yaw <= HalfPi

C4_Witness ==
    /\ CalculatingAny /\ Computed /\ Resolved(op.id)
    /\ OnChain(Path(op.id), 1)
    /\ links_[1].pitch < 0
    /\ links_[1].r > 0
    /\ ret # Tuple(0, 0, 0)

C6_PositionIsSumOfOffsets ==
    (/\ CalculatingAny /\ Resolved(op.id)
     /\ AboveHalfPi(Path(op.id)) = {}
     /\ Colliding(Path(op.id)) = {})
        => /\ ~Ended
           /\ Returned =>
                LET p == PositionAt(Path(op.id), Len(Path(op.id)))
                IN  ret = Tuple(p[1], p[2], p[3]) /\ diag = ""

C6_Witness ==
    /\ CalculatingAny /\ Returned /\ Resolved(op.id)
    /\ Path(op.id) = <<1, 2>>
    /\ Cardinality(DOMAIN links_) = 2
    /\ ret = Tuple(100, 0, 100)
    /\ diag = ""

\* C7: addLink under an id that is a key of the registry changes nothing in
\* the registry; addLink under a fresh id adds the entry of that id, a link
\* with that id, and changes no other entry.
C7_AddLinkDuplicateOrFresh ==
    [][(pc = "idle" /\ op'.name = "addLink")
        => IF op'.id \in DOMAIN links_
             THEN links_' = links_ /\ diag' = "already exists"
             ELSE /\ DOMAIN links_' = DOMAIN links_ \cup {op'.id}
                  /\ links_'[op'.id] # NULL
                  /\ links_'[op'.id].id = op'.id
                  /\ \A k \in DOMAIN links_ : links_'[k] = links_[k]]_vars

C7_Witness ==
    /\ pc = "done" /\ op.name = "addLink"
    /\ diag = "already exists"
    /\ Registered(op.id)
    /\ links_[op.id].kind = "Gripper"
    /\ links_[op.id].pitch = 2

\* C8: calculatePosition on a registered target whose chain reaches an id
\* that addLink never registered returns the IncompleteChain failure
\* (0,0,0) and does not crash, after any sequence of operations.
C8_DanglingChainIsIncomplete ==
    (CalculatingAny /\ Registered(op.id) /\ ReachesUnregistered(op.id, MaxId))
        => /\ ~Ended
           /\ Returned => Failure(IncompleteChain)

\* C9: setDirection on the id of a registered link sets the pitch, yaw and
\* roll of that link to the values given, whatever they are, and changes
\* nothing else in the registry.
C9_SetDirectionSetsExactly ==
    [][(pc = "idle" /\ op'.name = "setDirection" /\ Registered(op'.id))
        => /\ pc' = "done"
           /\ DOMAIN links_' = DOMAIN links_
           /\ links_'[op'.id] = [links_[op'.id] EXCEPT
                  !.pitch = op'.pitch, !.yaw = op'.yaw, !.roll = op'.roll]
           /\ \A k \in DOMAIN links_ \ {op'.id} : links_'[k] = links_[k]]_vars

C9_Witness ==
    /\ pc = "done" /\ op.name = "setDirection"
    /\ op.id = 1
    /\ Registered(1)
    /\ op.pitch > HalfPi /\ op.yaw < 0 /\ op.roll # 0
    /\ links_[1].pitch = op.pitch /\ links_[1].yaw = op.yaw /\ links_[1].roll = op.roll

\* C10: getLink, openGripper, closeGripper, takePhoto and calculatePosition
\* never add or remove a key of the registry, also when the id they are
\* called with is not registered.
C10_ReadersKeepKeys ==
    [][(pc = "idle" /\ op'.name \in {"getLink", "openGripper", "closeGripper",
                                     "takePhoto", "calculatePosition"})
        => DOMAIN links_' = DOMAIN links_]_vars

====
